---- MODULE Spec2Model ----
(***************************************************************************)
(* secure_probe.go: a wallet anomaly probe.  One run reads the chain head, *)
(* the balance and nonce of an address now and 100 blocks back, and the    *)
(* code at the address, scores three heuristics and prints one report.     *)
(*                                                                         *)
(* Strings and raw JSON results are sequences of one-character strings.    *)
(* The JSON-RPC node is the environment: it keeps a chain whose head may   *)
(* advance between any two steps of the run.                               *)
(***************************************************************************)
EXTENDS Integers, Sequences, FiniteSets, TLC

\* ---------------------------------------------------------------- bounds
MaxTicks == 1        \* blocks the chain may grow during one run
MaxBal == 1          \* balances are 0..MaxBal (wei)
MaxFaults == 1       \* responses of one run that are errors or ill-formed

\* ------------------------------------------------------ program constants
Window == 100
NonceThreshold == 20
BalanceWeight == 35
ActivityWeight == 25
CodeWeight == 10
ScoreCap == 100
CodeRawMin == 4

\* ------------------------------------------------------------- hex codec
Q == "\""

LowerHex == <<"0", "1", "2", "3", "4", "5", "6", "7", "8", "9",
              "a", "b", "c", "d", "e", "f">>
UpperHex == <<"0", "1", "2", "3", "4", "5", "6", "7", "8", "9",
              "A", "B", "C", "D", "E", "F">>

IsHexDigit(c) == \E i \in 1..16 : LowerHex[i] = c \/ UpperHex[i] = c

DigitVal(c) == (CHOOSE i \in 1..16 : LowerHex[i] = c \/ UpperHex[i] = c) - 1

\* fmt's %x of a non-negative big.Int: lowercase, no leading zeros.
RECURSIVE HexDigitsOf(_)
HexDigitsOf(n) ==
    IF n < 16 THEN <<LowerHex[n + 1]>>
    ELSE HexDigitsOf(n \div 16) \o <<LowerHex[(n % 16) + 1]>>

\* fmt.Sprintf("0x%x", n)
SprintfHex(n) == <<"0", "x">> \o HexDigitsOf(n)

\* strings.TrimPrefix(s, "0x")
TrimPrefix0x(s) ==
    IF Len(s) >= 2 /\ s[1] = "0" /\ s[2] = "x" THEN SubSeq(s, 3, Len(s)) ELSE s

\* Length of the longest prefix of s made of hexadecimal digits.
RECURSIVE DigitRun(_)
DigitRun(s) ==
    IF s # <<>> /\ IsHexDigit(s[1]) THEN 1 + DigitRun(Tail(s)) ELSE 0

RECURSIVE DigitsValue(_, _)
DigitsValue(s, acc) ==
    IF s = <<>> THEN acc ELSE DigitsValue(Tail(s), acc * 16 + DigitVal(s[1]))

\* (*big.Int).SetString(s, 16): an optional sign, then digits up to the end.
\* ok is the boolean the library returns; z is what the receiver holds
\* afterwards (the digits scanned before the first offending character).
SetString16(s) ==
    LET signed == s # <<>> /\ s[1] \in {"+", "-"}
        body == IF signed THEN Tail(s) ELSE s
        n == DigitRun(body)
        mag == DigitsValue(SubSeq(body, 1, n), 0)
        val == IF signed /\ s[1] = "-" THEN 0 - mag ELSE mag
    IN  [ok |-> n > 0 /\ n = Len(body), z |-> val]

\* hexToBig ignores SetString's boolean.  After a failed SetString the value
\* of the receiver is undefined by the library's contract: it is the fresh
\* zero or whatever was scanned.  The result is the set of possible outcomes.
hexToBig(s) ==
    LET r == SetString16(TrimPrefix0x(s))
    IN  IF r.ok THEN {[ok |-> TRUE, z |-> r.z]}
        ELSE {[ok |-> FALSE, z |-> 0], [ok |-> FALSE, z |-> r.z]}

\* hexToBig(string(raw[1:len(raw)-1])): the slice expression panics when the
\* raw message is shorter than two bytes (a nil result included).
DecodeQuoted(raw) ==
    IF Len(raw) < 2 THEN {[panic |-> TRUE, ok |-> FALSE, z |-> 0]}
    ELSE {[panic |-> FALSE, ok |-> r.ok, z |-> r.z] :
            r \in hexToBig(SubSeq(raw, 2, Len(raw) - 1))}

\* A JSON string literal as the node sends it.
Quote(s) == <<Q>> \o s \o <<Q>>

\* ------------------------------------------------------------------ state
VARIABLES
    rpc, addr,        \* os.Getenv("RPC_URL"), os.Getenv("ADDRESS")
    pc,               \* position of main
    pending,          \* requests posted and not yet answered
    calls,            \* every request posted so far, in order
    latest, balLatest, balPast, pastBlock,
    nonceNowRaw, nonceNow, noncePast,
    score, reasons, codeNowRaw,
    stdout,           \* the reports printed
    head, old, hist, code,   \* the node: chain head and the account's history
    failed,           \* call sites whose call returned an error
    malformed,        \* call sites whose result SetString rejected
    readAt,           \* call site -> block the node answered it from
    faults            \* responses so far that were errors or ill-formed

progVars == <<rpc, addr, pc, pending, calls, latest, balLatest, balPast, pastBlock,
              nonceNowRaw, nonceNow, noncePast, score, reasons, codeNowRaw, stdout>>
nodeVars == <<head, old, hist, code>>
obsVars == <<failed, malformed, readAt, faults>>
vars == <<progVars, nodeVars, obsVars>>

\* ---------------------------------------------------------------- the node
LatestTag == <<"l", "a", "t", "e", "s", "t">>

Address == <<"0", "x", "a", "b">>

\* The head starts at the last height without a window or the first with one.
HeadStarts == {Window, Window + 1}

BalVals == 0..MaxBal
NonceSteps == {0, NonceThreshold, NonceThreshold + 1}
CodeVals == {<<>>, <<"6", "0">>}

\* Results a node may send that are no "0x" hex quantity: no result member at
\* all, a non-hex string, and a string with a hex prefix and a non-hex tail.
BadRaws == {<<>>, Quote(<<"0", "x", "z">>), Quote(<<"0", "x", "1", "z">>)}

\* Block of the first entry of hist; every earlier block holds the state old.
FirstRecent == head - Len(hist) + 1

StateAt(b) == IF b < FirstRecent THEN old ELSE hist[b - FirstRecent + 1]

\* The block a tag denotes for the node, -1 when it denotes none.
ResolveTag(tag) ==
    IF tag = LatestTag THEN head
    ELSE LET r == SetString16(TrimPrefix0x(tag))
         IN  IF r.ok /\ r.z >= 0 /\ r.z <= head THEN r.z ELSE -1

\* The well-formed answer of the node to a request, if it has one.
HonestAnswers(req) ==
    IF req.method = "eth_blockNumber"
      THEN {[kind |-> "ok", raw |-> Quote(SprintfHex(head)), at |-> head]}
    ELSE LET b == ResolveTag(req.tag) IN
      IF b < 0 THEN {}
      ELSE IF req.method = "eth_getBalance"
        THEN {[kind |-> "ok", raw |-> Quote(SprintfHex(StateAt(b).bal)), at |-> b]}
      ELSE IF req.method = "eth_getTransactionCount"
        THEN {[kind |-> "ok", raw |-> Quote(SprintfHex(StateAt(b).nonce)), at |-> b]}
      ELSE {[kind |-> "ok", raw |-> Quote(<<"0", "x">> \o code), at |-> b]}

\* Everything http.Post and the body decoder can hand back to call.
Faulty ==
    {[kind |-> k, raw |-> <<>>, at |-> -1] : k \in {"transport", "badbody", "rpcerr"}}
    \cup {[kind |-> "ok", raw |-> r, at |-> -1] : r \in BadRaws}

Responses(req) ==
    HonestAnswers(req) \cup (IF faults < MaxFaults THEN Faulty ELSE {})

\* ------------------------------------------------------------- the program
\* call: the result is nil and err is set on a transport failure, an
\* undecodable body or an error envelope; otherwise the result member.
call(resp) ==
    IF resp.kind = "ok" THEN [raw |-> resp.raw, err |-> FALSE]
    ELSE [raw |-> <<>>, err |-> TRUE]

CallSites == {"bn", "balLatest", "balPast", "nonceNow", "noncePast", "code"}
Terminal == {"usage", "panicked", "done"}

Method(site) ==
    CASE site = "bn" -> "eth_blockNumber"
      [] site \in {"balLatest", "balPast"} -> "eth_getBalance"
      [] site \in {"nonceNow", "noncePast"} -> "eth_getTransactionCount"
      [] OTHER -> "eth_getCode"

TagOf(site) ==
    CASE site = "bn" -> <<>>
      [] site \in {"balPast", "noncePast"} -> SprintfHex(pastBlock)
      [] OTHER -> LatestTag

Init ==
    /\ rpc \in {<<>>, <<"u">>}
    /\ addr \in {<<>>, Address}
    /\ pc = "start"
    /\ pending = <<>>
    /\ calls = <<>>
    /\ latest = 0 /\ balLatest = 0 /\ balPast = 0 /\ pastBlock = 0
    /\ nonceNowRaw = <<>> /\ nonceNow = 0 /\ noncePast = 0
    /\ score = 0 /\ reasons = <<>> /\ codeNowRaw = <<>>
    /\ stdout = <<>>
    /\ head \in HeadStarts
    /\ old \in [bal : BalVals, nonce : {0}]
    /\ \E b \in BalVals, d \in NonceSteps :
          hist = <<[bal |-> b, nonce |-> old.nonce + d]>>
    /\ code \in CodeVals
    /\ failed = {} /\ malformed = {}
    /\ readAt = [s \in CallSites |-> -1]
    /\ faults = 0

\* Variant: requests go out without waiting for the outstanding one.
CanPostAsync == TRUE

\* http.Post blocks main until the response is in: a request is posted only
\* when none is outstanding.
CanPost == pending = <<>>

\* Line 34: the request of the call site main stands at goes out.
Issue ==
    /\ pc \in CallSites
    /\ CanPost
    /\ LET req == [site |-> pc, method |-> Method(pc), tag |-> TagOf(pc)]
       IN  /\ pending' = Append(pending, req)
           /\ calls' = Append(calls, req)
    /\ UNCHANGED <<rpc, addr, pc, latest, balLatest, balPast, pastBlock, nonceNowRaw,
                   nonceNow, noncePast, score, reasons, codeNowRaw, stdout>>
    /\ UNCHANGED <<nodeVars, obsVars>>

\* What the observers record when the response resp to the call at site is
\* handled and SetString rejected the results of the sites in bad.
Observe(site, resp, bad) ==
    /\ failed' = IF call(resp).err THEN failed \cup {site} ELSE failed
    /\ malformed' = malformed \cup bad
    /\ readAt' = [readAt EXCEPT ![site] = resp.at]
    /\ faults' = IF resp \in Faulty THEN faults + 1 ELSE faults

\* Lines 63-68: both settings are required.
CheckEnv ==
    /\ pc = "start"
    /\ pc' = IF rpc = <<>> \/ addr = <<>> THEN "usage" ELSE "bn"
    /\ UNCHANGED <<rpc, addr, pending, calls, latest, balLatest, balPast, pastBlock,
                   nonceNowRaw, nonceNow, noncePast, score, reasons, codeNowRaw, stdout>>
    /\ UNCHANGED <<nodeVars, obsVars>>

\* Variant: a failed block-number call is taken for height zero.
BlockNumberOutcomesZero(r) ==
    IF r.err THEN {[panic |-> FALSE, ok |-> TRUE, z |-> 0]} ELSE DecodeQuoted(r.raw)

\* Lines 70-72: an error of the block-number call panics; otherwise the
\* result is sliced and decoded.
BlockNumberOutcomes(r) ==
    IF r.err THEN {[panic |-> TRUE, ok |-> FALSE, z |-> 0]} ELSE DecodeQuoted(r.raw)

\* Lines 75-76, 83-84, 88-91: the error of a later call is dropped and the
\* (possibly nil) result is sliced and decoded.
SecondaryOutcomes(r) == DecodeQuoted(r.raw)

Bad(site, d) == IF ~d.panic /\ ~d.ok THEN {site} ELSE {}

RetBlockNumber ==
    /\ pc = "bn" /\ pending # <<>>
    /\ \E resp \in Responses(Head(pending)) :
       \E d \in BlockNumberOutcomes(call(resp)) :
          /\ pending' = Tail(pending)
          /\ IF d.panic THEN pc' = "panicked" /\ UNCHANGED latest
                        ELSE pc' = "balLatest" /\ latest' = d.z
          /\ Observe("bn", resp, Bad("bn", d))
    /\ UNCHANGED <<rpc, addr, calls, balLatest, balPast, pastBlock, nonceNowRaw,
                   nonceNow, noncePast, score, reasons, codeNowRaw, stdout>>
    /\ UNCHANGED nodeVars

RetBalLatest ==
    /\ pc = "balLatest" /\ pending # <<>>
    /\ \E resp \in Responses(Head(pending)) :
       \E d \in SecondaryOutcomes(call(resp)) :
          /\ pending' = Tail(pending)
          /\ IF d.panic THEN pc' = "panicked" /\ UNCHANGED balLatest
                        ELSE pc' = "window" /\ balLatest' = d.z
          /\ Observe("balLatest", resp, Bad("balLatest", d))
    /\ UNCHANGED <<rpc, addr, calls, latest, balPast, pastBlock, nonceNowRaw,
                   nonceNow, noncePast, score, reasons, codeNowRaw, stdout>>
    /\ UNCHANGED nodeVars

\* Variant: the window test is off by one.
HasWindowInclusive(l) == l >= Window

\* Line 80: is there a block 100 back?
HasWindow(l) == l > Window

\* Lines 78-82: the reference point defaults to the latest one.
SetWindow ==
    /\ pc = "window"
    /\ balPast' = balLatest
    /\ IF HasWindow(latest)
         THEN pastBlock' = latest - Window /\ pc' = "balPast"
         ELSE pastBlock' = latest /\ pc' = "nonceNow"
    /\ UNCHANGED <<rpc, addr, pending, calls, latest, balLatest, nonceNowRaw,
                   nonceNow, noncePast, score, reasons, codeNowRaw, stdout>>
    /\ UNCHANGED <<nodeVars, obsVars>>

\* Lines 83-84.
RetBalPast ==
    /\ pc = "balPast" /\ pending # <<>>
    /\ \E resp \in Responses(Head(pending)) :
       \E d \in SecondaryOutcomes(call(resp)) :
          /\ pending' = Tail(pending)
          /\ IF d.panic THEN pc' = "panicked" /\ UNCHANGED balPast
                        ELSE pc' = "nonceNow" /\ balPast' = d.z
          /\ Observe("balPast", resp, Bad("balPast", d))
    /\ UNCHANGED <<rpc, addr, calls, latest, balLatest, pastBlock, nonceNowRaw,
                   nonceNow, noncePast, score, reasons, codeNowRaw, stdout>>
    /\ UNCHANGED nodeVars

\* Line 88: the raw result is kept; it is decoded only at line 90.
RetNonceNow ==
    /\ pc = "nonceNow" /\ pending # <<>>
    /\ \E resp \in Responses(Head(pending)) :
          /\ pending' = Tail(pending)
          /\ nonceNowRaw' = call(resp).raw
          /\ pc' = "noncePast"
          /\ Observe("nonceNow", resp, {})
    /\ UNCHANGED <<rpc, addr, calls, latest, balLatest, balPast, pastBlock,
                   nonceNow, noncePast, score, reasons, codeNowRaw, stdout>>
    /\ UNCHANGED nodeVars

\* Lines 89-91: the second count arrives, then both are decoded in turn.
RetNoncePast ==
    /\ pc = "noncePast" /\ pending # <<>>
    /\ \E resp \in Responses(Head(pending)) :
       \E dn \in DecodeQuoted(nonceNowRaw) :
       \E dp \in SecondaryOutcomes(call(resp)) :
          /\ pending' = Tail(pending)
          /\ IF dn.panic
               THEN /\ pc' = "panicked" /\ UNCHANGED <<nonceNow, noncePast>>
                    /\ Observe("noncePast", resp, {})
             ELSE IF dp.panic
               THEN /\ pc' = "panicked" /\ nonceNow' = dn.z /\ UNCHANGED noncePast
                    /\ Observe("noncePast", resp, Bad("nonceNow", dn))
             ELSE /\ pc' = "ruleBalance" /\ nonceNow' = dn.z /\ noncePast' = dp.z
                  /\ Observe("noncePast", resp,
                             Bad("nonceNow", dn) \cup Bad("noncePast", dp))
    /\ UNCHANGED <<rpc, addr, calls, latest, balLatest, balPast, pastBlock,
                   nonceNowRaw, score, reasons, codeNowRaw, stdout>>
    /\ UNCHANGED nodeVars

\* Variant: a flat balance counts as drained.
BalanceRuleInclusive(past, now) == past - now >= 0

\* Line 97: positive difference means drained.
BalanceRule(past, now) == past - now > 0

\* Variant: the threshold itself counts as a spike.
ActivityRuleInclusive(now, past) == now - past >= NonceThreshold

\* Line 102.
ActivityRule(now, past) == now - past > NonceThreshold

\* Line 112: longer than the four bytes of "0x" in quotes.
CodeRule(raw) == Len(raw) > CodeRawMin

\* Variant: the weight is assigned instead of added.
AddScoreAssign(s, w) == w

\* score += w
AddScore(s, w) == s + w

\* Variant: the reason is put in front.
PrependReason(rs, r) == <<r>> \o rs

\* reasons = append(reasons, r)
AppendReason(rs, r) == Append(rs, r)

\* Line 118.
Clamp(s) == IF s > ScoreCap THEN ScoreCap ELSE s

\* A reason is the message with the number formatted into it.
DropReason(d) == [rule |-> "balance drop", arg |-> d]
ActivityReason(d) == [rule |-> "high tx activity", arg |-> d]
CodeReason == [rule |-> "address has code", arg |-> 0]

\* Lines 94-100.
RuleBalance ==
    /\ pc = "ruleBalance"
    /\ IF BalanceRule(balPast, balLatest)
         THEN /\ score' = AddScore(0, BalanceWeight)
              /\ reasons' = AppendReason(<<>>, DropReason(balPast - balLatest))
         ELSE /\ score' = 0
              /\ reasons' = <<>>
    /\ pc' = "ruleActivity"
    /\ UNCHANGED <<rpc, addr, pending, calls, latest, balLatest, balPast, pastBlock,
                   nonceNowRaw, nonceNow, noncePast, codeNowRaw, stdout>>
    /\ UNCHANGED <<nodeVars, obsVars>>

\* Lines 101-105.
RuleActivity ==
    /\ pc = "ruleActivity"
    /\ IF ActivityRule(nonceNow, noncePast)
         THEN /\ score' = AddScore(score, ActivityWeight)
              /\ reasons' = AppendReason(reasons, ActivityReason(nonceNow - noncePast))
         ELSE UNCHANGED <<score, reasons>>
    /\ pc' = "code"
    /\ UNCHANGED <<rpc, addr, pending, calls, latest, balLatest, balPast, pastBlock,
                   nonceNowRaw, nonceNow, noncePast, codeNowRaw, stdout>>
    /\ UNCHANGED <<nodeVars, obsVars>>

\* Lines 111-115: the error is dropped; a nil result has length 0.
RetCode ==
    /\ pc = "code" /\ pending # <<>>
    /\ \E resp \in Responses(Head(pending)) :
          /\ pending' = Tail(pending)
          /\ codeNowRaw' = call(resp).raw
          /\ IF CodeRule(call(resp).raw)
               THEN /\ score' = AddScore(score, CodeWeight)
                    /\ reasons' = AppendReason(reasons, CodeReason)
               ELSE UNCHANGED <<score, reasons>>
          /\ pc' = "emit"
          /\ Observe("code", resp, {})
    /\ UNCHANGED <<rpc, addr, calls, latest, balLatest, balPast, pastBlock,
                   nonceNowRaw, nonceNow, noncePast, stdout>>
    /\ UNCHANGED nodeVars

\* Lines 118-133.  BalLatest carries the wei amount that weiToEth renders.
Emit ==
    /\ pc = "emit"
    /\ score' = Clamp(score)
    /\ stdout' = Append(stdout, [Address |-> addr,
                                 Block |-> SprintfHex(latest),
                                 Score |-> Clamp(score),
                                 Reasons |-> reasons,
                                 BalLatest |-> balLatest])
    /\ pc' = "done"
    /\ UNCHANGED <<rpc, addr, pending, calls, latest, balLatest, balPast, pastBlock,
                   nonceNowRaw, nonceNow, noncePast, reasons, codeNowRaw>>
    /\ UNCHANGED <<nodeVars, obsVars>>

\* The chain grows by a block, in which the account was idle or busy, while
\* the run waits for a response (the node answers from the head it has when
\* it answers, so growth at other moments shows nothing more).
Tick ==
    /\ pending # <<>>
    /\ Len(hist) <= MaxTicks
    /\ head' = head + 1
    /\ LET last == hist[Len(hist)]
       IN  \/ hist' = Append(hist, last)
           \/ \E b \in BalVals :
                 hist' = Append(hist, [bal |-> b,
                                       nonce |-> last.nonce + NonceThreshold + 1])
    /\ UNCHANGED <<old, code>>
    /\ UNCHANGED <<progVars, obsVars>>

Next ==
    \/ CheckEnv
    \/ Issue
    \/ RetBlockNumber
    \/ RetBalLatest
    \/ SetWindow
    \/ RetBalPast
    \/ RetNonceNow
    \/ RetNoncePast
    \/ RuleBalance
    \/ RuleActivity
    \/ RetCode
    \/ Emit
    \/ Tick

Spec == Init /\ [][Next]_vars

TypeOK ==
    /\ pc \in {"start", "window", "ruleBalance", "ruleActivity", "emit"}
              \cup CallSites \cup Terminal
    /\ Len(stdout) <= 1
    /\ Len(pending) <= 1

\* ----------------------------------------------------------------- claims
Emitted == stdout # <<>>
Report == stdout[1]

\* Every response of the run so far was a well-formed success.
AllOk == faults = 0

Drained == balPast > balLatest
Spiked == nonceNow - noncePast > 20
Coded == Len(codeNowRaw) > 4

RuleCount(rs, name) == Cardinality({i \in 1..Len(rs) : rs[i].rule = name})

IsPrefix(s, t) == Len(s) <= Len(t) /\ s = SubSeq(t, 1, Len(s))

\* C1: no report is ever emitted from a run in which some remote call
\* (balance, transaction count or code) returned an error.
C1_FailFast == Emitted => failed = {}

\* What the code does do: failed balance and count calls end the run (the
\* slice of the nil result panics); only a failed code call is survived.
OnlyCodeFailureSurvives == Emitted => failed \subseteq {"code"}

\* C2: when the eth_blockNumber call fails the run has panicked, nothing is
\* printed and the block-number request is the only one ever posted.
C2_BlockNumberFatal ==
    "bn" \in failed =>
        /\ pc = "panicked"
        /\ stdout = <<>>
        /\ pending = <<>>
        /\ Len(calls) = 1

C2_Witness == "bn" \in failed /\ pc = "panicked"

\* C3 as stated: in a run whose calls all succeed and whose block height is
\* at most 100, the reference block is the latest one, both deltas are zero,
\* and the report has score 0 and no reasons.
C3_DegenerateAllZero ==
    (Emitted /\ AllOk /\ latest <= 100) =>
        /\ pastBlock = latest
        /\ balPast - balLatest = 0
        /\ nonceNow - noncePast = 0
        /\ Report.Score = 0
        /\ Report.Reasons = <<>>

\* C3 amended: in such a run the reference block is the latest one, no
\* reference balance is fetched, the balance delta is zero and the
\* balance-drain rule contributes nothing; the score is 25 if the two count
\* reads differ by more than 20, plus 10 if the address has code.
C3_DegenerateWindow ==
    (Emitted /\ AllOk /\ latest <= 100) =>
        /\ pastBlock = latest
        /\ \A i \in 1..Len(calls) : calls[i].site # "balPast"
        /\ balPast - balLatest = 0
        /\ RuleCount(Report.Reasons, "balance drop") = 0
        /\ Report.Score = (IF Spiked THEN 25 ELSE 0) + (IF Coded THEN 10 ELSE 0)

C3_Witness == Emitted /\ AllOk /\ latest <= 100 /\ Report.Score > 0

\* C4: the score of every report is the sum of the weights of the rules that
\* triggered (35, 25, 10) capped at 100, and lies between 0 and 70.
C4_ScoreInvariant ==
    Emitted =>
        LET sum == (IF Drained THEN 35 ELSE 0) + (IF Spiked THEN 25 ELSE 0)
                     + (IF Coded THEN 10 ELSE 0)
        IN  /\ Report.Score = IF sum > 100 THEN 100 ELSE sum
            /\ Report.Score >= 0
            /\ Report.Score <= 70

C4_Witness == Emitted /\ Report.Score = 70

\* C5: the activity rule adds 25 and appends one "high tx activity" reason
\* when nonceNow - noncePast > 20, and changes nothing otherwise (delta 20
\* and negative deltas included).
C5_ActivityBoundary ==
    [][pc = "ruleActivity" =>
        LET d == nonceNow - noncePast IN
        IF d > 20
          THEN /\ score' = score + 25
               /\ reasons' = Append(reasons, [rule |-> "high tx activity", arg |-> d])
          ELSE /\ score' = score
               /\ reasons' = reasons]_vars

C5_Witness ==
    /\ pc = "code"
    /\ nonceNow - noncePast = 20
    /\ RuleCount(reasons, "high tx activity") = 0

\* C6: the balance rule contributes 35 and one "balance drop" reason when
\* balPast > balLatest, and nothing when balPast <= balLatest.
C6_BalanceDrain ==
    [][pc = "ruleBalance" =>
        IF balPast > balLatest
          THEN /\ score' = 35
               /\ reasons' = <<[rule |-> "balance drop", arg |-> balPast - balLatest]>>
          ELSE /\ score' = 0
               /\ reasons' = <<>>]_vars

C6_Witness ==
    /\ pc = "ruleActivity"
    /\ balPast > balLatest
    /\ score = 35
    /\ RuleCount(reasons, "balance drop") = 1

\* C7: the reasons of every report are one entry per triggered rule, in the
\* order balance, activity, code, at most three; when only the activity and
\* code rules trigger they are those two in that order and the score is 35.
C7_ReasonsShape ==
    Emitted =>
        LET rs == Report.Reasons IN
        /\ rs = (IF Drained
                   THEN <<[rule |-> "balance drop", arg |-> balPast - balLatest]>>
                   ELSE <<>>)
                \o (IF Spiked
                      THEN <<[rule |-> "high tx activity", arg |-> nonceNow - noncePast]>>
                      ELSE <<>>)
                \o (IF Coded THEN <<[rule |-> "address has code", arg |-> 0]>> ELSE <<>>)
        /\ Len(rs) <= 3
        /\ (~Drained /\ Spiked /\ Coded) =>
              /\ Report.Score = 35
              /\ Len(rs) = 2
              /\ rs[1].rule = "high tx activity"
              /\ rs[2].rule = "address has code"

C7_Witness == Emitted /\ ~Drained /\ Spiked /\ Coded

\* C8: at most one request is outstanding, and the requests posted so far
\* are an initial part of block number, balance(s), counts, code, each call
\* site at most once.
C8_CallOrder ==
    LET sites == [i \in 1..Len(calls) |-> calls[i].site]
        meths == [i \in 1..Len(calls) |-> calls[i].method]
        full == <<"bn", "balLatest", "balPast", "nonceNow", "noncePast", "code">>
        short == <<"bn", "balLatest", "nonceNow", "noncePast", "code">>
    IN  /\ Len(pending) <= 1
        /\ pending # <<>> => pending[1] = calls[Len(calls)]
        /\ IsPrefix(sites, full) \/ IsPrefix(sites, short)
        /\ \A i, j \in 1..Len(calls) : sites[i] = sites[j] => i = j
        /\ \/ IsPrefix(meths, <<"eth_blockNumber", "eth_getBalance", "eth_getBalance",
                                "eth_getTransactionCount", "eth_getTransactionCount",
                                "eth_getCode">>)
           \/ IsPrefix(meths, <<"eth_blockNumber", "eth_getBalance",
                                "eth_getTransactionCount", "eth_getTransactionCount",
                                "eth_getCode">>)

C8_Witness == Len(calls) = 6 /\ pc = "done"

\* C9: no report is computed from a result that is not a well-formed hex
\* string.
C9_DecodeSignalled == Emitted => malformed = {}

\* C10: in a run whose calls all succeed, the latest balance and count are
\* read at the height getBlockNumber returned, with a window they are 100
\* blocks from the reference reads, and latestBlock is the block the
\* reported balance was read at.
C10_SnapshotConsistent ==
    (Emitted /\ AllOk) =>
        /\ readAt["balLatest"] = latest
        /\ readAt["nonceNow"] = latest
        /\ latest > 100 =>
              /\ readAt["balLatest"] - readAt["balPast"] = 100
              /\ readAt["nonceNow"] - readAt["noncePast"] = 100
        /\ Report.Block = SprintfHex(readAt["balLatest"])
====
